---- MODULE Spec2Model ----
(***************************************************************************)
(* bench/report.py: aggregation and reporting of benchmark measurement     *)
(* files.  The module models the invocation of main (file selection, the   *)
(* loading loop, the three renderers) and the pure helpers it calls.       *)
(*                                                                         *)
(* Conventions.                                                            *)
(*  - A Python str is a sequence of one-character strings.                 *)
(*  - A duration is an integer number of ticks of 100 microseconds and a   *)
(*    size an integer number of megabytes; quotients are taken exactly     *)
(*    (binary floating point error is not modelled) and rounded half to    *)
(*    even like Python's fixed-point format.                               *)
(*  - A formatted number is the record [kind |-> "num", scaled, digits,    *)
(*    suffix]: the numeral scaled / 10^digits written with `digits'        *)
(*    digits after the point, followed by suffix.                          *)
(*  - A call returns [exc |-> "none", val |-> v] or raises:                *)
(*    [exc |-> <exception class>].                                         *)
(***************************************************************************)
EXTENDS Integers, Sequences, FiniteSets, TLC

VARIABLES
    pc,            \* position of main, or of the helper under call
    args,          \* the parsed command line (argparse namespace)
    fs,            \* the file system main reads
    result_files,  \* main: result_files
    todo,          \* main: the files the loading loop has still to visit
    runs,          \* main: runs
    k,             \* human renderer: index of the next run to report
    stdout,        \* lines printed on standard output
    stderr,        \* diagnostics printed on the error stream
    rendered,      \* the renderers entered so far, in order
    exit_status,   \* process exit status (-1 while running)
    call,          \* helper under call: [fn, a]
    ret            \* what the helper returned or raised

vars == <<pc, args, fs, result_files, todo, runs, k, stdout, stderr,
          rendered, exit_status, call, ret>>

(***************************************************************************)
(* Bounds of the explored inputs.                                          *)
(***************************************************************************)
MaxPieces == 3      \* a command is at most this many pieces long
MaxStemLen == 3     \* a generated file stem is at most this many characters long
MaxDirFiles == 2    \* a generated directory holds at most this many files
MaxResults == 2     \* a generated run holds at most this many results
MaxRuns == 2        \* the human renderer is given at most this many runs

(***************************************************************************)
(* Python str                                                              *)
(***************************************************************************)
\* The characters used, in code point order.
AsciiOrder ==
    <<"\t", "\n", "\f", "\r", " ", "'", "-", ".", "/",
      "0", "1", "2", "3", "4", "5", "6", "7", "8", "9",
      "A", "B", "C", "D", "E", "F", "G", "H", "I", "J", "K", "L", "M",
      "N", "O", "P", "Q", "R", "S", "T", "U", "V", "W", "X", "Y", "Z",
      "_",
      "a", "b", "c", "d", "e", "f", "g", "h", "i", "j", "k", "l", "m",
      "n", "o", "p", "q", "r", "s", "t", "u", "v", "w", "x", "y", "z">>

Ord(c) == CHOOSE i \in 1..Len(AsciiOrder) : AsciiOrder[i] = c

UpperFirst == Ord("A")
LowerFirst == Ord("a")

\* str.lower() on one character
LowerChar(c) ==
    IF Ord(c) >= UpperFirst /\ Ord(c) < UpperFirst + 26
    THEN AsciiOrder[Ord(c) - UpperFirst + LowerFirst]
    ELSE c

\* str.lower()
Lower(s) == [i \in 1..Len(s) |-> LowerChar(s[i])]

\* sub in s
Contains(s, sub) ==
    \E i \in 0..(Len(s) - Len(sub)) :
        \A j \in 1..Len(sub) : s[i + j] = sub[j]

\* the characters str.split() treats as separators (those of AsciiOrder)
IsSpace(c) == c \in {" ", "\t", "\n", "\f", "\r"}

\* str.split()[0]: the first whitespace-delimited token; raises IndexError
\* when split() returns the empty list
FirstToken(s) ==
    LET starts == {i \in 1..Len(s) : ~IsSpace(s[i])}
    IN  IF starts = {}
        THEN [exc |-> "IndexError"]
        ELSE LET b == CHOOSE i \in starts : \A j \in starts : i <= j
                 stops == {i \in b..Len(s) : IsSpace(s[i])}
                 e == IF stops = {} THEN Len(s)
                      ELSE (CHOOSE i \in stops : \A j \in stops : i <= j) - 1
             IN  [exc |-> "none", val |-> SubSeq(s, b, e)]

\* s < t in Python's str order (code point lexicographic)
StrLess(s, t) ==
    \E i \in 1..(Len(t)) :
        /\ \A j \in 1..(i - 1) : j <= Len(s) /\ s[j] = t[j]
        /\ \/ i = Len(s) + 1
           \/ i <= Len(s) /\ Ord(s[i]) < Ord(t[i])

S_mygrep == <<"m", "y", "g", "r", "e", "p">>
S_ripgrep == <<"r", "i", "p", "g", "r", "e", "p">>
S_gnu_grep == <<"g", "n", "u", "-", "g", "r", "e", "p">>
S_ggrep == <<"g", "g", "r", "e", "p">>
S_grep == <<"g", "r", "e", "p">>
S_slash_grep == <<"/", "g", "r", "e", "p">>
S_rg == <<"r", "g">>
S_rg_space == <<"r", "g", " ">>
S_rg_quote == <<"r", "g", "'">>
S_unknown == <<"u", "n", "k", "n", "o", "w", "n">>

(***************************************************************************)
(* Metrics formatter                                                       *)
(***************************************************************************)
TicksPerSecond == 10 * 1000
TicksPerMilli == TicksPerSecond \div 1000

Pow10(n) == IF n = 0 THEN 1 ELSE IF n = 1 THEN 10 ELSE IF n = 2 THEN 100 ELSE 1000

\* num / den rounded to the nearest integer, ties to the even one
RoundHalfEven(num, den) ==
    LET n == IF den < 0 THEN -num ELSE num
        d == IF den < 0 THEN -den ELSE den
        q == n \div d
        r == n % d
    IN  IF 2 * r < d THEN q
        ELSE IF 2 * r > d THEN q + 1
        ELSE IF q % 2 = 0 THEN q ELSE q + 1

\* f"{num/den:.<digits>f}<suffix>"
Fixed(num, den, digits, suffix) ==
    [kind |-> "num", scaled |-> RoundHalfEven(num * Pow10(digits), den),
     digits |-> digits, suffix |-> suffix]

NA == [kind |-> "N/A"]

format_time(seconds) ==
    IF seconds < TicksPerMilli
    THEN Fixed(seconds * 1000000, TicksPerSecond, 1, " us")   \* the micro sign, written u
    ELSE IF seconds < TicksPerSecond
    THEN Fixed(seconds * 1000, TicksPerSecond, 1, " ms")
    ELSE Fixed(seconds, TicksPerSecond, 3, " s")

format_throughput_two_decimals(size_mb, time_seconds) ==
    IF time_seconds <= 0
    THEN NA
    ELSE Fixed(size_mb * TicksPerSecond, time_seconds, 2, " MB/s")

format_throughput(size_mb, time_seconds) ==
    IF time_seconds <= 0
    THEN NA
    ELSE Fixed(size_mb * TicksPerSecond, time_seconds, 1, " MB/s")

\* ratio = base_time / compare_time is zero exactly when base_time is, and
\* then 1/ratio raises
calculate_speedup(base_time, compare_time) ==
    IF compare_time <= 0
    THEN [exc |-> "none", val |-> NA]
    ELSE IF base_time >= compare_time
    THEN [exc |-> "none", val |-> Fixed(base_time, compare_time, 2, "x faster")]
    ELSE IF base_time = 0
    THEN [exc |-> "ZeroDivisionError"]
    ELSE [exc |-> "none", val |-> Fixed(compare_time, base_time, 2, "x slower")]

get_tool_name(command) ==
    LET cmd_lower == Lower(command)
    IN  IF Contains(cmd_lower, S_mygrep)
        THEN [exc |-> "none", val |-> S_mygrep]
        ELSE IF \/ Contains(cmd_lower, S_ripgrep)
                \/ Contains(command, S_rg_space)
                \/ Contains(command, S_rg_quote)
        THEN [exc |-> "none", val |-> S_ripgrep]
        ELSE IF \/ Contains(cmd_lower, S_ggrep)
                \/ Contains(cmd_lower, S_gnu_grep)
                \/ Contains(command, S_slash_grep)
        THEN [exc |-> "none", val |-> S_gnu_grep]
        ELSE FirstToken(command)

(***************************************************************************)
(* File selector.  A path is the stem of a file (its name without the      *)
(* ".json" suffix); all files matched by the glob have the same parent, so *)
(* the order of two paths is the order of their names.                     *)
(***************************************************************************)
S_json == <<".", "j", "s", "o", "n">>

\* p < q for two paths of one directory
PathLess(p, q) == StrLess(p \o S_json, q \o S_json)

\* sorted(files) for a set of distinct paths
RECURSIVE SortedPaths(_)
SortedPaths(files) ==
    IF files = {} THEN <<>>
    ELSE LET least == CHOOSE f \in files :
                          \A g \in files \ {f} : PathLess(f, g)
         IN  <<least>> \o SortedPaths(files \ {least})

\* s.rsplit(sep, maxsplit) for a one-character sep
RECURSIVE RSplit(_, _, _)
RSplit(s, sep, maxsplit) ==
    LET at == {i \in 1..Len(s) : s[i] = sep}
    IN  IF maxsplit = 0 \/ at = {}
        THEN <<s>>
        ELSE LET last == CHOOSE i \in at : \A j \in at : j <= i
             IN  Append(RSplit(SubSeq(s, 1, last - 1), sep, maxsplit - 1),
                        SubSeq(s, last + 1, Len(s)))

\* sep.join(parts)
RECURSIVE Join(_, _)
Join(sep, parts) ==
    IF parts = <<>> THEN <<>>
    ELSE IF Len(parts) = 1 THEN parts[1]
    ELSE parts[1] \o <<sep>> \o Join(sep, Tail(parts))

\* the benchmark type find_result_files groups a file under
bench_type_whole_stem(stem) == stem

bench_type(stem) ==
    LET parts == RSplit(stem, "_", 2)
    IN  IF Len(parts) >= 3
        THEN Join("_", SubSeq(parts, 1, Len(parts) - 2))
        ELSE stem

\* find_result_files: [files, err], err the diagnostics it prints
find_result_files(dir_exists, dir_files, latest_only) ==
    IF ~dir_exists
    THEN [files |-> <<>>, err |-> <<"Error: Results directory not found">>]
    ELSE IF dir_files = {}
    THEN [files |-> <<>>, err |-> <<"No result files found">>]
    ELSE IF latest_only
    THEN LET groups == [b \in {bench_type(f) : f \in dir_files} |->
                            {f \in dir_files : bench_type(f) = b}]
             latest_files ==
                 {CHOOSE f \in groups[b] :
                      \A g \in groups[b] \ {f} : PathLess(g, f) : b \in DOMAIN groups}
         IN  [files |-> SortedPaths(latest_files), err |-> <<>>]
    ELSE [files |-> SortedPaths(dir_files), err |-> <<>>]

(***************************************************************************)
(* Record loader.  A parsed JSON value is [t |-> "object", v |-> <function *)
(* from keys>], [t |-> "array", v |-> <sequence>], or [t |-> "number"] and *)
(* [t |-> "string"] with the value in v; the leaves of an object that the  *)
(* loader copies into a field (texts, numbers) are stored as they are.     *)
(***************************************************************************)
Obj(f) == [t |-> "object", v |-> f]
Arr(q) == [t |-> "array", v |-> q]
NoKeys == [key \in {} |-> 0]

\* d.get(key, default) on a dict
DictGet(d, key, default) == IF key \in DOMAIN d.v THEN d.v[key] ELSE default

\* what a for loop over a list, a str or a dict (not a number) visits: the
\* elements, the characters, the keys
Items(value) ==
    IF value.t = "array" THEN value.v
    ELSE IF value.t = "string"
    THEN [j \in 1..Len(value.v) |-> [t |-> "string", v |-> <<value.v[j]>>]]
    ELSE [j \in 1..Cardinality(DOMAIN value.v) |-> [t |-> "string", v |-> <<>>]]

\* BenchmarkResult.from_hyperfine on a dict
from_hyperfine(data) ==
    [command |-> DictGet(data, "command", S_unknown),
     mean |-> DictGet(data, "mean", 0),
     stddev |-> DictGet(data, "stddev", 0),
     median |-> DictGet(data, "median", 0),
     min |-> DictGet(data, "min", 0),
     max |-> DictGet(data, "max", 0),
     times |-> DictGet(data, "times", <<>>)]

\* open(filepath) and json.load: what the file system holds for the path; a
\* path it does not hold raises FileNotFoundError, an OSError
ReadJson(files, filepath) ==
    IF filepath \in DOMAIN files.content
    THEN files.content[filepath]
    ELSE [exc |-> "OSError"]

\* the exception classes matched by except (json.JSONDecodeError, IOError)
CaughtByLoader == {"JSONDecodeError", "OSError"}

\* BenchmarkRun.from_json_file: [exc, val, err]; val is <<>> for None and <<run>>
\* for a run, err the diagnostics printed on the error stream
from_json_file(files, filepath) ==
    LET got == ReadJson(files, filepath)
    IN  IF got.exc \in CaughtByLoader
        THEN [exc |-> "none", val |-> <<>>,
              err |-> <<[kind |-> "warning", path |-> filepath]>>]
        ELSE IF got.exc # "none"
        THEN [exc |-> got.exc, val |-> <<>>, err |-> <<>>]
        ELSE LET data == got.val
             IN  IF data.t # "object"
                 THEN [exc |-> "AttributeError", val |-> <<>>, err |-> <<>>]
                 ELSE LET metadata == DictGet(data, "metadata", Obj(NoKeys))
                          listed == DictGet(data, "results", Arr(<<>>))
                      IN  IF listed.t = "number"
                          THEN [exc |-> "TypeError", val |-> <<>>, err |-> <<>>]
                          ELSE IF \/ \E j \in 1..Len(Items(listed)) :
                                         Items(listed)[j].t # "object"
                                  \/ metadata.t # "object"
                          THEN [exc |-> "AttributeError", val |-> <<>>, err |-> <<>>]
                          ELSE [exc |-> "none",
                                val |-> <<[name |-> DictGet(metadata, "benchmark_name", filepath),
                                         timestamp |-> DictGet(metadata, "timestamp", S_unknown),
                                         pattern |-> DictGet(metadata, "pattern", S_unknown),
                                         target_path |-> DictGet(metadata, "target_path", S_unknown),
                                         size_mb |-> DictGet(metadata, "size_mb", 0),
                                         file_count |-> DictGet(metadata, "file_count", 1),
                                         cold_run |-> DictGet(metadata, "cold_run", FALSE),
                                         results |-> [j \in 1..Len(Items(listed)) |->
                                                          from_hyperfine(Items(listed)[j])]]>>,
                                err |-> <<>>]

(***************************************************************************)
(* Report renderers.  A renderer returns [out, exc]: the lines it printed  *)
(* and the exception that ended it ("none" when it ran to its end).  Every *)
(* line carries the renderer it comes from in fmt.                         *)
(***************************************************************************)
\* sorted(results, key=lambda r: r.mean): a stable sort
RECURSIVE SortedByMean(_)
SortedByMean(results) ==
    IF results = <<>> THEN <<>>
    ELSE LET front == SortedByMean(SubSeq(results, 1, Len(results) - 1))
             r == results[Len(results)]
             keep == {j \in 1..Len(front) : front[j].mean <= r.mean}
             n == Cardinality(keep)
         IN  SubSeq(front, 1, n) \o <<r>> \o SubSeq(front, n + 1, Len(front))

CacheMode(run) == IF run.cold_run THEN "cold" ELSE "warm"

Baseline == [kind |-> "baseline"]

\* print_benchmark_report, the table: the rows for sorted_results[j..]
RECURSIVE TableRows(_, _, _)
TableRows(run, sorted_results, j) ==
    IF j > Len(sorted_results) THEN [out |-> <<>>, exc |-> "none"]
    ELSE LET result == sorted_results[j]
             fastest == sorted_results[1]
             tool_name == get_tool_name(result.command)
             comparison == IF result = fastest
                           THEN [exc |-> "none", val |-> Baseline]
                           ELSE calculate_speedup(result.mean, fastest.mean)
         IN  IF tool_name.exc # "none" THEN [out |-> <<>>, exc |-> tool_name.exc]
             ELSE IF comparison.exc # "none" THEN [out |-> <<>>, exc |-> comparison.exc]
             ELSE LET row == [fmt |-> "human", kind |-> "row",
                              tool |-> tool_name.val,
                              mean |-> format_time(result.mean),
                              median |-> format_time(result.median),
                              stddev |-> format_time(result.stddev),
                              min |-> format_time(result.min),
                              max |-> format_time(result.max),
                              throughput |-> format_throughput(run.size_mb, result.mean),
                              comparison |-> comparison.val]
                      rest == TableRows(run, sorted_results, j + 1)
                  IN  [out |-> <<row>> \o rest.out, exc |-> rest.exc]

\* next((r for r in results[j..] if "mygrep" in get_tool_name(r.command)), None):
\* val is <<>> for None and <<r>> for the result r
RECURSIVE FirstMygrep(_, _)
FirstMygrep(results, j) ==
    IF j > Len(results) THEN [exc |-> "none", val |-> <<>>]
    ELSE LET tool_name == get_tool_name(results[j].command)
         IN  IF tool_name.exc # "none" THEN [exc |-> tool_name.exc]
             ELSE IF Contains(tool_name.val, S_mygrep)
             THEN [exc |-> "none", val |-> <<results[j]>>]
             ELSE FirstMygrep(results, j + 1)

\* print_benchmark_report, the summary block: the lines for sorted_results[j..]
RECURSIVE SummaryLines(_, _, _)
SummaryLines(mygrep_result, sorted_results, j) ==
    IF j > Len(sorted_results) THEN [out |-> <<>>, exc |-> "none"]
    ELSE LET result == sorted_results[j]
             tool_name == get_tool_name(result.command)
         IN  IF tool_name.exc # "none" THEN [out |-> <<>>, exc |-> tool_name.exc]
             ELSE IF tool_name.val = S_mygrep
             THEN SummaryLines(mygrep_result, sorted_results, j + 1)
             ELSE LET speedup == calculate_speedup(mygrep_result.mean, result.mean)
                  IN  IF speedup.exc # "none" THEN [out |-> <<>>, exc |-> speedup.exc]
                      ELSE LET rest == SummaryLines(mygrep_result, sorted_results, j + 1)
                           IN  [out |-> <<[fmt |-> "human", kind |-> "summary",
                                           tool |-> tool_name.val,
                                           speedup |-> speedup.val]>> \o rest.out,
                                exc |-> rest.exc]

print_benchmark_report(run) ==
    LET header == <<[fmt |-> "human", kind |-> "run_header", name |-> run.name,
                     timestamp |-> run.timestamp, pattern |-> run.pattern,
                     target |-> run.target_path, size_mb |-> run.size_mb,
                     file_count |-> run.file_count, cache_mode |-> CacheMode(run)]>>
    IN  IF run.results = <<>>
        THEN [out |-> header \o <<[fmt |-> "human", kind |-> "no_results"]>>,
              exc |-> "none"]
        ELSE LET sorted_results == SortedByMean(run.results)
                 table == TableRows(run, sorted_results, 1)
                 head == header \o <<[fmt |-> "human", kind |-> "table_header"]>>
             IN  IF table.exc # "none"
                 THEN [out |-> head \o table.out, exc |-> table.exc]
                 ELSE LET mygrep_result == FirstMygrep(run.results, 1)
                      IN  IF mygrep_result.exc # "none"
                          THEN [out |-> head \o table.out, exc |-> mygrep_result.exc]
                          ELSE IF mygrep_result.val = <<>>
                          THEN [out |-> head \o table.out, exc |-> "none"]
                          ELSE LET summary == SummaryLines(mygrep_result.val[1],
                                                           sorted_results, 1)
                               IN  [out |-> head \o table.out
                                            \o <<[fmt |-> "human", kind |-> "summary_header"]>>
                                            \o summary.out,
                                    exc |-> summary.exc]

\* sorted(names) for a set of str
RECURSIVE SortedStrs(_)
SortedStrs(names) ==
    IF names = {} THEN <<>>
    ELSE LET least == CHOOSE a \in names : \A b \in names \ {a} : StrLess(a, b)
         IN  <<least>> \o SortedStrs(names \ {least})

\* the exception get_tool_name raises on one of the commands, "none" if on none
ToolNameExc(commands) ==
    IF \E c \in commands : get_tool_name(c).exc # "none"
    THEN get_tool_name(CHOOSE c \in commands : get_tool_name(c).exc # "none").exc
    ELSE "none"

RunCommands(run) == {run.results[j].command : j \in 1..Len(run.results)}

\* {get_tool_name(r.command): r for r in run.results}: a later result
\* replaces an earlier one of the same tool
result_map(run) ==
    LET names == {get_tool_name(c).val : c \in RunCommands(run)}
    IN  [name \in names |->
            LET at == {j \in 1..Len(run.results) :
                          get_tool_name(run.results[j].command).val = name}
            IN  run.results[CHOOSE j \in at : \A i \in at : i <= j]]

\* print_summary_table, one data row
SummaryRow(run, tool_list) ==
    LET sorted_results == SortedByMean(run.results)
        winner == IF sorted_results # <<>>
                  THEN get_tool_name(sorted_results[1].command).val
                  ELSE <<"N", "/", "A">>
    IN  [fmt |-> "human", kind |-> "overall_row",
         name |-> run.name, cache_mode |-> CacheMode(run),
         cells |-> [j \in 1..Len(tool_list) |->
                       IF tool_list[j] \in DOMAIN result_map(run)
                       THEN format_time(result_map(run)[tool_list[j]].mean)
                       ELSE NA],
         winner |-> winner]

print_summary_table(all_runs) ==
    LET commands == UNION {RunCommands(all_runs[j]) : j \in 1..Len(all_runs)}
    IN  IF ToolNameExc(commands) # "none"
        THEN [out |-> <<[fmt |-> "human", kind |-> "overall_banner"]>>,
              exc |-> ToolNameExc(commands)]
        ELSE LET tool_list == SortedStrs({get_tool_name(c).val : c \in commands})
             IN  [out |-> <<[fmt |-> "human", kind |-> "overall_banner"],
                            [fmt |-> "human", kind |-> "overall_header",
                             tools |-> tool_list]>>
                          \o [j \in 1..Len(all_runs) |-> SummaryRow(all_runs[j], tool_list)],
                  exc |-> "none"]

\* f"{seconds:.6f}": a tick is 100 microseconds, so the numeral is exact
Fixed6(seconds) ==
    [kind |-> "num", scaled |-> seconds * (1000000 \div TicksPerSecond),
     digits |-> 6, suffix |-> ""]

\* run.size_mb / result.mean if result.mean > 0 else 0, as a fraction
Throughput(run, result) ==
    IF result.mean > 0
    THEN [num |-> run.size_mb * TicksPerSecond, den |-> result.mean]
    ELSE [num |-> 0, den |-> 1]

\* print_csv_report, the data rows of the results[j..] of runs[i..]
RECURSIVE CsvRows(_, _, _)
CsvRows(all_runs, i, j) ==
    IF i > Len(all_runs) THEN [out |-> <<>>, exc |-> "none"]
    ELSE IF j > Len(all_runs[i].results) THEN CsvRows(all_runs, i + 1, 1)
    ELSE LET run == all_runs[i]
             result == run.results[j]
             tool_name == get_tool_name(result.command)
             throughput == Throughput(run, result)
         IN  IF tool_name.exc # "none" THEN [out |-> <<>>, exc |-> tool_name.exc]
             ELSE LET rest == CsvRows(all_runs, i, j + 1)
                  IN  [out |-> <<[fmt |-> "csv", kind |-> "row",
                                  benchmark |-> run.name, cache_mode |-> CacheMode(run),
                                  pattern |-> run.pattern, size_mb |-> run.size_mb,
                                  file_count |-> run.file_count, tool |-> tool_name.val,
                                  mean_s |-> Fixed6(result.mean),
                                  median_s |-> Fixed6(result.median),
                                  stddev_s |-> Fixed6(result.stddev),
                                  min_s |-> Fixed6(result.min),
                                  max_s |-> Fixed6(result.max),
                                  throughput_mbs |->
                                      Fixed(throughput.num, throughput.den, 2, "")]>>
                              \o rest.out,
                       exc |-> rest.exc]

print_csv_report(all_runs) ==
    LET rows == CsvRows(all_runs, 1, 1)
    IN  [out |-> <<[fmt |-> "csv", kind |-> "header"]>> \o rows.out, exc |-> rows.exc]

\* print_json_report: the document is printed whole once it is built
print_json_report(all_runs) ==
    LET commands == UNION {RunCommands(all_runs[j]) : j \in 1..Len(all_runs)}
    IN  IF ToolNameExc(commands) # "none"
        THEN [out |-> <<>>, exc |-> ToolNameExc(commands)]
        ELSE [out |-> <<[fmt |-> "json", kind |-> "document",
                         runs |-> [i \in 1..Len(all_runs) |->
                            LET run == all_runs[i]
                            IN  [benchmark |-> run.name, timestamp |-> run.timestamp,
                                 pattern |-> run.pattern, target_path |-> run.target_path,
                                 size_mb |-> run.size_mb, file_count |-> run.file_count,
                                 cold_run |-> run.cold_run,
                                 results |-> [j \in 1..Len(run.results) |->
                                    LET result == run.results[j]
                                    IN  [tool |-> get_tool_name(result.command).val,
                                         mean_s |-> result.mean,
                                         median_s |-> result.median,
                                         stddev_s |-> result.stddev,
                                         min_s |-> result.min,
                                         max_s |-> result.max,
                                         throughput_mbs |-> Throughput(run, result)]]]]]>>,
              exc |-> "none"]

(***************************************************************************)
(* main                                                                    *)
(***************************************************************************)
\* the renderer the if / elif / else of main enters
selected_renderer_csv_first(json, csv) ==
    IF csv THEN "csv" ELSE IF json THEN "json" ELSE "human"

selected_renderer(json, csv) ==
    IF json THEN "json" ELSE IF csv THEN "csv" ELSE "human"

\* an uncaught exception: the traceback goes to the error stream and the
\* interpreter exits with status 1
Uncaught(exc) ==
    /\ stderr' = Append(stderr, [kind |-> "traceback", exc |-> exc])
    /\ exit_status' = 1
    /\ pc' = "done"

\* sys.exit(1) after a diagnostic
Exit1(message) ==
    /\ stderr' = Append(stderr, [kind |-> "error", text |-> message])
    /\ exit_status' = 1
    /\ pc' = "done"

\* lines 369-373: the explicit pair of --compare, or the file selector
FindFiles ==
    /\ pc = "find"
    /\ LET found == IF args.compare # <<>>
                    THEN [files |-> args.compare, err |-> <<>>]
                    ELSE find_result_files(fs.exists, fs.dir, args.latest)
       IN  /\ result_files' = found.files
           /\ stderr' = stderr \o [j \in 1..Len(found.err) |->
                                      [kind |-> "error", text |-> found.err[j]]]
    /\ pc' = "check_files"
    /\ UNCHANGED <<args, fs, todo, runs, k, stdout, rendered, exit_status, call, ret>>

\* lines 375-377
NoFiles ==
    /\ pc = "check_files"
    /\ result_files = <<>>
    /\ Exit1("No benchmark results to process.")
    /\ UNCHANGED <<args, fs, result_files, todo, runs, k, stdout, rendered, call, ret>>

\* lines 380-381: entering the loading loop
BeginLoad ==
    /\ pc = "check_files"
    /\ result_files # <<>>
    /\ runs' = <<>>
    /\ todo' = result_files
    /\ pc' = "load"
    /\ UNCHANGED <<args, fs, result_files, k, stdout, stderr, rendered,
                   exit_status, call, ret>>

\* lines 381-384: one iteration of the loading loop
LoadFile ==
    /\ pc = "load"
    /\ todo # <<>>
    /\ LET run == from_json_file(fs, Head(todo))
       IN  IF run.exc # "none"
           THEN /\ Uncaught(run.exc)
                /\ UNCHANGED <<todo, runs>>
           ELSE /\ runs' = runs \o run.val
                /\ todo' = Tail(todo)
                /\ stderr' = stderr \o run.err
                /\ UNCHANGED <<pc, exit_status>>
    /\ UNCHANGED <<args, fs, result_files, k, stdout, rendered, call, ret>>

\* lines 386-388
NoRuns ==
    /\ pc = "load"
    /\ todo = <<>>
    /\ runs = <<>>
    /\ Exit1("Failed to load any benchmark results.")
    /\ UNCHANGED <<args, fs, result_files, todo, runs, k, stdout, rendered, call, ret>>

\* a renderer that prints everything in one call, then main returns
RenderWhole(name, report) ==
    /\ pc = "load"
    /\ todo = <<>>
    /\ runs # <<>>
    /\ selected_renderer(args.json, args.csv) = name
    /\ rendered' = Append(rendered, name)
    /\ stdout' = stdout \o report.out
    /\ IF report.exc # "none"
       THEN Uncaught(report.exc)
       ELSE /\ exit_status' = 0
            /\ pc' = "done"
            /\ UNCHANGED stderr
    /\ UNCHANGED <<args, fs, result_files, todo, runs, k, call, ret>>

\* lines 391-392
RenderJson == RenderWhole("json", print_json_report(runs))

\* lines 393-394
RenderCsv == RenderWhole("csv", print_csv_report(runs))

\* lines 395-401: the banner of the human-readable report
HumanBanner ==
    /\ pc = "load"
    /\ todo = <<>>
    /\ runs # <<>>
    /\ selected_renderer(args.json, args.csv) = "human"
    /\ rendered' = Append(rendered, "human")
    /\ stdout' = Append(stdout, [fmt |-> "human", kind |-> "banner",
                                 nruns |-> Len(runs)])
    /\ k' = 1
    /\ pc' = "report"
    /\ UNCHANGED <<args, fs, result_files, todo, runs, stderr, exit_status, call, ret>>

\* lines 403-404: one iteration, print_benchmark_report(run)
HumanReport ==
    /\ pc = "report"
    /\ k <= Len(runs)
    /\ LET report == print_benchmark_report(runs[k])
       IN  /\ stdout' = stdout \o report.out
           /\ IF report.exc # "none"
              THEN /\ Uncaught(report.exc)
                   /\ UNCHANGED k
              ELSE /\ k' = k + 1
                   /\ UNCHANGED <<pc, stderr, exit_status>>
    /\ UNCHANGED <<args, fs, result_files, todo, runs, rendered, call, ret>>

\* lines 406-407: the cross-run table, for more than one run
HumanSummary ==
    /\ pc = "report"
    /\ k > Len(runs)
    /\ Len(runs) > 1
    /\ LET table == print_summary_table(runs)
       IN  /\ stdout' = stdout \o table.out
           /\ IF table.exc # "none"
              THEN Uncaught(table.exc)
              ELSE /\ pc' = "notes"
                   /\ UNCHANGED <<stderr, exit_status>>
    /\ UNCHANGED <<args, fs, result_files, todo, runs, k, rendered, call, ret>>

\* lines 409-415: the notes; main returns
HumanNotes ==
    /\ \/ pc = "notes"
       \/ pc = "report" /\ k > Len(runs) /\ Len(runs) <= 1
    /\ stdout' = Append(stdout, [fmt |-> "human", kind |-> "notes"])
    /\ exit_status' = 0
    /\ pc' = "done"
    /\ UNCHANGED <<args, fs, result_files, todo, runs, k, stderr, rendered, call, ret>>

Next ==
    \/ FindFiles
    \/ NoFiles
    \/ BeginLoad
    \/ LoadFile
    \/ NoRuns
    \/ RenderJson
    \/ RenderCsv
    \/ HumanBanner
    \/ HumanReport
    \/ HumanSummary
    \/ HumanNotes

NoCall == [fn |-> "none", a |-> <<>>]
NoRet == [exc |-> "none", val |-> <<>>]
NoArgs == [compare |-> <<>>, latest |-> FALSE, json |-> FALSE, csv |-> FALSE]
NoFs == [exists |-> FALSE, dir |-> {}, content |-> <<>>]
(***************************************************************************)
(* The invocations explored: every command line over a small file system.  *)
(***************************************************************************)
P_a_1_1 == <<"a", "_", "1", "_", "1">>
P_a_1_2 == <<"a", "_", "1", "_", "2">>
P_b == <<"b">>
MainPaths == {P_a_1_1, P_a_1_2, P_b}
ComparePaths == {P_a_1_2, P_b}

C_mygrep == S_mygrep \o <<" ", "-", "n", " ", "x">>
C_rg == S_rg_space \o <<"x">>

ResultObj(command, mean) == Obj(("command" :> command) @@ ("mean" :> mean))

\* mygrep at 1.0 s and ripgrep at 0.5 s over 10 MB
DocTwoTools ==
    Obj(("metadata" :> Obj("size_mb" :> 10))
        @@ ("results" :> Arr(<<ResultObj(C_mygrep, 10000), ResultObj(C_rg, 5000)>>)))

\* the mygrep result has no mean
DocNoMean ==
    Obj("results" :> Arr(<<Obj("command" :> C_mygrep), ResultObj(C_rg, 5000)>>))

\* {}
DocEmptyObject == Obj(NoKeys)

\* a result whose command is the empty string
DocBlankCommand == Obj("results" :> Arr(<<ResultObj(<<>>, 5000)>>))

\* []
DocTopLevelList == Arr(<<>>)

Docs == {DocTwoTools, DocNoMean, DocEmptyObject, DocBlankCommand, DocTopLevelList}

\* what open and json.load make of a file: an exception, or the parsed value
Contents ==
    {[exc |-> "OSError"], [exc |-> "JSONDecodeError"], [exc |-> "UnicodeDecodeError"]}
    \cup {[exc |-> "none", val |-> d] : d \in Docs}

Init ==
    /\ pc = "find"
    /\ \E held \in SUBSET MainPaths, exists \in BOOLEAN :
          \E content \in [held -> Contents] :
              fs = [exists |-> exists,
                    dir |-> IF exists THEN held ELSE {},
                    content |-> content]
    /\ args \in [compare : {<<>>} \cup (ComparePaths \X ComparePaths),
                 latest : BOOLEAN, json : BOOLEAN, csv : BOOLEAN]
    /\ result_files = <<>>
    /\ todo = <<>>
    /\ runs = <<>>
    /\ k = 0
    /\ stdout = <<>>
    /\ stderr = <<>>
    /\ rendered = <<>>
    /\ exit_status = -1
    /\ call = NoCall
    /\ ret = NoRet

Spec == Init /\ [][Next]_vars

(***************************************************************************)
(* The file selector over generated directories.                           *)
(***************************************************************************)
StemChars == {"a", "-", "_"}

Stems == UNION {[1..n -> StemChars] : n \in 1..MaxStemLen}

\* the three files of the documented selection example
P_grepbench_0101 ==
    <<"g", "r", "e", "p", "b", "e", "n", "c", "h", "_", "2", "0", "2", "4", "-", "0", "1", "-", "0", "1", "_", "1", "0", "0", "0">>
P_grepbench_0102 ==
    <<"g", "r", "e", "p", "b", "e", "n", "c", "h", "_", "2", "0", "2", "4", "-", "0", "1", "-", "0", "2", "_", "1", "1", "0", "0">>
P_otherbench_0101 ==
    <<"o", "t", "h", "e", "r", "b", "e", "n", "c", "h", "_", "2", "0", "2", "4", "-", "0", "1", "-", "0", "1", "_", "0", "9", "0", "0">>
ExampleDir == {P_grepbench_0101, P_grepbench_0102, P_otherbench_0101}

\* the sets of at most n stems
RECURSIVE StemSets(_)
StemSets(n) ==
    IF n = 0 THEN {{}}
    ELSE StemSets(n - 1) \cup {d \cup {f} : d \in StemSets(n - 1), f \in Stems}

Directories == StemSets(MaxDirFiles) \cup {ExampleDir}

InitSelect ==
    /\ pc = "find"
    /\ \E exists \in BOOLEAN :
          \E dir \in (IF exists THEN Directories ELSE {{}}) :
              fs = [exists |-> exists, dir |-> dir,
                    content |-> [f \in dir |-> [exc |-> "none", val |-> DocEmptyObject]]]
    /\ args \in [compare : {<<>>}, latest : BOOLEAN, json : {FALSE}, csv : {FALSE}]
    /\ result_files = <<>>
    /\ todo = <<>>
    /\ runs = <<>>
    /\ k = 0
    /\ stdout = <<>>
    /\ stderr = <<>>
    /\ rendered = <<>>
    /\ exit_status = -1
    /\ call = NoCall
    /\ ret = NoRet

NextSelect == FindFiles

SpecSelect == InitSelect /\ [][NextSelect]_vars

(***************************************************************************)
(* The human-readable renderer over generated runs: main at the end of the *)
(* loading loop, having loaded the files of the directory.                 *)
(***************************************************************************)
ResultCommands == {C_mygrep, C_rg, S_grep}
ResultMeans == {0, 5000, 10000}
ResultObjs == {ResultObj(c, m) : c \in ResultCommands, m \in ResultMeans}

ResultLists == UNION {[1..n -> ResultObjs] : n \in 0..MaxResults}

ReportPaths == <<P_a_1_1, P_a_1_2, P_b>>

InitReport ==
    /\ pc = "load"
    /\ \E n \in 1..MaxRuns :
          \E lists \in [1..n -> ResultLists] :
              LET held == {ReportPaths[j] : j \in 1..n}
                  at(f) == CHOOSE j \in 1..n : ReportPaths[j] = f
              IN  /\ fs = [exists |-> TRUE, dir |-> held,
                           content |-> [f \in held |->
                               [exc |-> "none",
                                val |-> Obj(("metadata" :> Obj("size_mb" :> 10))
                                            @@ ("results" :> Arr(lists[at(f)])))]]]
                  /\ result_files = SubSeq(ReportPaths, 1, n)
                  /\ runs = [j \in 1..n |-> from_json_file(fs, ReportPaths[j]).val[1]]
    /\ args = NoArgs
    /\ todo = <<>>
    /\ k = 0
    /\ stdout = <<>>
    /\ stderr = <<>>
    /\ rendered = <<>>
    /\ exit_status = -1
    /\ call = NoCall
    /\ ret = NoRet

NextReport ==
    \/ HumanBanner
    \/ HumanReport
    \/ HumanSummary
    \/ HumanNotes

SpecReport == InitReport /\ [][NextReport]_vars

Abs(n) == IF n < 0 THEN -n ELSE n

(***************************************************************************)
(* Claims about main                                                       *)
(***************************************************************************)
\* the file loads into a run
Loads(filepath) == from_json_file(fs, filepath).val # <<>>

\* C1: main ends with a non-zero status, a diagnostic on the error stream and
\* nothing on stdout when the selected file list is empty or none of the
\* selected files loads into a run; in every other case it ends with status
\* zero, having rendered with the renderer of the chosen format.
C1_ExitStatus ==
    pc = "done" =>
        IF \A j \in 1..Len(result_files) : ~Loads(result_files[j])
        THEN exit_status # 0 /\ stderr # <<>> /\ stdout = <<>>
        ELSE /\ exit_status = 0
             /\ stdout # <<>>
             /\ \A j \in 1..Len(stdout) :
                    stdout[j].fmt = IF args.json THEN "json"
                                    ELSE IF args.csv THEN "csv" ELSE "human"

\* the file cannot be read, or is not JSON, or is not a JSON object
BadFile(filepath) ==
    LET got == ReadJson(fs, filepath)
    IN  got.exc # "none" \/ got.val.t # "object"

GoodFile(filepath) == ~BadFile(filepath)

LoaderRaised ==
    \E j \in 1..Len(stderr) :
        /\ stderr[j].kind = "traceback"
        /\ stderr[j].exc \in {"AttributeError", "TypeError", "UnicodeDecodeError"}

\* C2: a file that cannot be read or parsed as a JSON object makes
\* from_json_file print a warning and return None without raising; main skips
\* it, so the runs handed to the renderer are the runs of the other selected
\* files in their order, and a bad file never ends the process by itself.
C2_BadFileSkipped ==
    pc = "done" =>
        LET good == SelectSeq(result_files, GoodFile)
        IN  /\ ~LoaderRaised
            /\ \A j \in 1..Len(result_files) :
                   BadFile(result_files[j]) =>
                       \E i \in 1..Len(stderr) :
                           /\ stderr[i].kind = "warning"
                           /\ stderr[i].path = result_files[j]
            /\ good # <<>> =>
                   /\ rendered # <<>>
                   /\ runs = [j \in 1..Len(good) |-> from_json_file(fs, good[j]).val[1]]

\* C3: exactly one renderer runs per successful invocation, the JSON renderer
\* when --json is set (with or without --csv), the CSV renderer when only --csv
\* is set, the human-readable one when neither is; no line of another renderer
\* is ever printed.
C3_OneRenderer ==
    LET expected == IF args.json THEN "json"
                    ELSE IF args.csv THEN "csv" ELSE "human"
    IN  /\ Len(rendered) <= 1
        /\ \A j \in 1..Len(rendered) : rendered[j] = expected
        /\ \A j \in 1..Len(stdout) : stdout[j].fmt = expected
        /\ exit_status = 0 => rendered = <<expected>> /\ stdout # <<>>

\* main has returned after the JSON renderer ran with both --json and --csv set
C3_Witness ==
    /\ pc = "done"
    /\ exit_status = 0
    /\ args.json /\ args.csv
    /\ rendered = <<"json">>
    /\ Len(stdout) = 1
    /\ stdout[1].kind = "document"

(***************************************************************************)
(* Claims about the file selector                                          *)
(***************************************************************************)
\* the family of a stem: the stem without its last two underscore-delimited
\* segments, the whole stem when it has fewer than three segments
Family(stem) ==
    LET at == {i \in 1..Len(stem) : stem[i] = "_"}
    IN  IF Cardinality(at) < 2 THEN stem
        ELSE LET cut == CHOOSE i \in at : Cardinality({j \in at : j > i}) = 1
             IN  SubSeq(stem, 1, cut - 1)

FileName(stem) == stem \o S_json

\* C4: with latest_only, find_result_files returns, in lexicographic order,
\* exactly one file per family of the directory, every family is represented,
\* and the file of a family is the greatest file name of that family.
C4_LatestPerFamily ==
    (pc = "check_files" /\ args.compare = <<>> /\ args.latest) =>
        /\ \A i, j \in 1..Len(result_files) :
               i < j => StrLess(FileName(result_files[i]), FileName(result_files[j]))
        /\ \A i \in 1..Len(result_files) :
               /\ result_files[i] \in fs.dir
               /\ \A f \in fs.dir :
                      Family(f) = Family(result_files[i]) =>
                          \/ f = result_files[i]
                          \/ StrLess(FileName(f), FileName(result_files[i]))
        /\ \A f \in fs.dir :
               Cardinality({i \in 1..Len(result_files) :
                               Family(result_files[i]) = Family(f)}) = 1

\* the documented example: of the two grepbench files the later one, and the
\* otherbench file
C4_Witness ==
    /\ pc = "check_files"
    /\ args.latest
    /\ fs.dir = ExampleDir
    /\ result_files = <<P_grepbench_0102, P_otherbench_0101>>

(***************************************************************************)
(* Claims about the human-readable renderer.  They are read off stdout     *)
(* when the report of the first run has just been printed (pc = "report"   *)
(* and k = 2), or the cross-run table has (pc = "notes").                  *)
(***************************************************************************)
FirstReportPrinted == pc = "report" /\ k = 2

ToolOf(result) == get_tool_name(result.command).val

IsRow(line) == line.kind = "row"
IsOverallRow(line) == line.kind = "overall_row"
IsOverallHeader(line) == line.kind = "overall_header"

\* C5: when the run holds a mygrep result and another tool whose mean is
\* positive and smaller than mygrep's, the summary line of that tool reads
\* "mygrep vs <tool>: <mygrep mean / tool mean>x slower" (two decimals).
C5_SummarySlower ==
    FirstReportPrinted =>
        LET results == runs[1].results
            mine == {j \in 1..Len(results) : ToolOf(results[j]) = S_mygrep}
        IN  mine # {} =>
            LET mygrep_result == results[CHOOSE j \in mine : \A i \in mine : j <= i]
            IN  \A j \in 1..Len(results) :
                    (/\ ToolOf(results[j]) # S_mygrep
                     /\ 0 < results[j].mean
                     /\ results[j].mean < mygrep_result.mean) =>
                    \E i \in 1..Len(stdout) :
                        /\ stdout[i].kind = "summary"
                        /\ stdout[i].tool = ToolOf(results[j])
                        /\ stdout[i].speedup.kind = "num"
                        /\ stdout[i].speedup.suffix = "x slower"
                        /\ stdout[i].speedup.digits = 2
                        /\ 2 * Abs(stdout[i].speedup.scaled * results[j].mean
                                   - mygrep_result.mean * 100) <= results[j].mean

\* the order a stable sort by mean gives the results: position i of the table
\* holds the result at StableOrder(results)[i]
StableOrder(results) ==
    CHOOSE order \in [1..Len(results) -> 1..Len(results)] :
        /\ \A i, j \in 1..Len(results) : i # j => order[i] # order[j]
        /\ \A i, j \in 1..Len(results) :
               i < j => \/ results[order[i]].mean < results[order[j]].mean
                        \/ /\ results[order[i]].mean = results[order[j]].mean
                           /\ order[i] < order[j]

\* C9: the table of a run with results lists them by ascending mean, equal
\* means in their original order; the first row, and no other, is labelled
\* "baseline"; every other row shows calculate_speedup(row mean, baseline
\* mean), also a row equal to the first in every field.
C9_OneBaseline ==
    (FirstReportPrinted /\ runs[1].results # <<>>) =>
        LET results == runs[1].results
            rows == SelectSeq(stdout, IsRow)
            order == StableOrder(results)
        IN  /\ Len(rows) = Len(results)
            /\ \A i \in 1..Len(rows) :
                   /\ rows[i].tool = ToolOf(results[order[i]])
                   /\ rows[i].mean = format_time(results[order[i]].mean)
                   /\ rows[i].comparison =
                          IF i = 1 THEN Baseline
                          ELSE calculate_speedup(results[order[i]].mean,
                                                 results[order[1]].mean).val

\* the duration a format_time text shows, in units of 0.1 microseconds
Shown(text) ==
    text.scaled * (IF text.suffix = " us" THEN 1
                   ELSE IF text.suffix = " ms" THEN 1000 ELSE 10000)

\* C10: in every row of the cross-run table the Winner column names the tool
\* of a result with the least mean of the run ("N/A" for a run without
\* results), the cell of that tool shows that least mean, and no other cell
\* of the row shows a smaller duration.
C10_WinnerIsFastest ==
    pc = "notes" =>
        LET rows == SelectSeq(stdout, IsOverallRow)
            tools == SelectSeq(stdout, IsOverallHeader)[1].tools
        IN  /\ Len(rows) = Len(runs)
            /\ \A r \in 1..Len(rows) :
                   LET results == runs[r].results
                   IN  IF results = <<>>
                       THEN rows[r].winner = <<"N", "/", "A">>
                       ELSE LET least == CHOOSE m \in {results[j].mean : j \in 1..Len(results)} :
                                             \A j \in 1..Len(results) : m <= results[j].mean
                            IN  /\ \E j \in 1..Len(results) :
                                       /\ results[j].mean = least
                                       /\ rows[r].winner = ToolOf(results[j])
                                /\ \A c \in 1..Len(tools) :
                                       /\ tools[c] = rows[r].winner =>
                                              rows[r].cells[c] = format_time(least)
                                       /\ rows[r].cells[c] # NA =>
                                              Shown(rows[r].cells[c]) >= Shown(format_time(least))

(***************************************************************************)
(* The helpers under call: every helper applied to every sampled input.    *)
(***************************************************************************)
RECURSIVE Flatten(_)
Flatten(ss) == IF ss = <<>> THEN <<>> ELSE Head(ss) \o Flatten(Tail(ss))

Pieces ==
    {S_mygrep, <<"M", "y", "G", "r", "e", "p">>, S_rg, <<"R", "G">>, S_ripgrep,
     S_ggrep, S_gnu_grep, S_grep, <<"/">>, <<" ">>, <<"'">>, <<"x">>, <<"\t">>}

Commands ==
    {Flatten(ps) : ps \in UNION {[1..n -> Pieces] : n \in 0..MaxPieces}}

\* durations in ticks: negative, zero, below and at 1 ms, below and at 1 s, above
TimeSamples == {-5, 0, 5, 9, 10, 15, 5000, 9999, 10000, 10004, 15000, 20000, 30000}

\* sizes in MB
SizeSamples == {0, 1, 10, 100}

Calls ==
    [fn : {"format_time"}, a : {<<t>> : t \in TimeSamples}]
    \cup [fn : {"format_throughput"}, a : SizeSamples \X TimeSamples]
    \cup [fn : {"calculate_speedup"}, a : TimeSamples \X TimeSamples]
    \cup [fn : {"get_tool_name"}, a : {<<c>> : c \in Commands}]


InitFormat ==
    /\ pc = "call"
    /\ call \in Calls
    /\ ret = NoRet
    /\ args = NoArgs
    /\ fs = NoFs
    /\ result_files = <<>>
    /\ todo = <<>>
    /\ runs = <<>>
    /\ k = 0
    /\ stdout = <<>>
    /\ stderr = <<>>
    /\ rendered = <<>>
    /\ exit_status = -1

Returns(fn, r) ==
    /\ pc = "call"
    /\ call.fn = fn
    /\ ret' = r
    /\ pc' = "returned"
    /\ UNCHANGED <<args, fs, result_files, todo, runs, k, stdout, stderr,
                   rendered, exit_status, call>>

CallFormatTime ==
    Returns("format_time", [exc |-> "none", val |-> format_time(call.a[1])])

CallFormatThroughput ==
    Returns("format_throughput",
            [exc |-> "none", val |-> format_throughput(call.a[1], call.a[2])])

CallCalculateSpeedup ==
    Returns("calculate_speedup", calculate_speedup(call.a[1], call.a[2]))

CallGetToolName ==
    Returns("get_tool_name", get_tool_name(call.a[1]))

NextFormat ==
    \/ CallFormatTime
    \/ CallFormatThroughput
    \/ CallCalculateSpeedup
    \/ CallGetToolName

SpecFormat == InitFormat /\ [][NextFormat]_vars

(***************************************************************************)
(* Claims about the metrics formatter                                      *)
(***************************************************************************)
\* C6: format_time, format_throughput, calculate_speedup and get_tool_name are
\* total: whatever the durations (zero and negative ones included) and whatever
\* the command string (empty and blank ones included), the call returns a value
\* and raises nothing.
C6_FormattersTotal ==
    pc = "returned" => ret.exc = "none"

\* the word rg ended by a space, by a quote, or by the end of the command
EndsWith(s, sub) ==
    /\ Len(sub) <= Len(s)
    /\ SubSeq(s, Len(s) - Len(sub) + 1, Len(s)) = sub

HasRgWord(command) ==
    \/ Contains(command, S_rg_space)
    \/ Contains(command, S_rg_quote)
    \/ EndsWith(command, S_rg)

\* C7: get_tool_name classifies a command (one that has a first token) in this
\* order: contains "mygrep" in any case -> mygrep; else contains "ripgrep" or
\* the word rg (a bare rg included) -> ripgrep; else contains "ggrep",
\* "gnu-grep" or "/grep" -> gnu-grep; else its first whitespace-delimited token.
C7_ToolNamePrecedence ==
    (pc = "returned" /\ call.fn = "get_tool_name"
        /\ FirstToken(call.a[1]).exc = "none") =>
    LET command == call.a[1]
        low == Lower(command)
    IN  /\ ret.exc = "none"
        /\ ret.val =
             IF Contains(low, S_mygrep) THEN S_mygrep
             ELSE IF Contains(low, S_ripgrep) \/ HasRgWord(command) THEN S_ripgrep
             ELSE IF \/ Contains(low, S_ggrep)
                     \/ Contains(low, S_gnu_grep)
                     \/ Contains(command, S_slash_grep) THEN S_gnu_grep
             ELSE FirstToken(command).val

\* C8 as stated: format_throughput(size, t) is "N/A" exactly when t <= 0 and
\* otherwise size / t in MB/s with two digits after the decimal point.
C8_ThroughputTwoDecimals ==
    (pc = "returned" /\ call.fn = "format_throughput") =>
    LET size == call.a[1]
        t == call.a[2]
    IN  /\ (ret.val = NA) <=> (t <= 0)
        /\ t > 0 =>
            /\ ret.val.kind = "num"
            /\ ret.val.suffix = " MB/s"
            /\ ret.val.digits = 2
            /\ 2 * Abs(ret.val.scaled * t - size * TicksPerSecond * 100) <= t

\* C8 as amended: format_throughput(size, t) is "N/A" exactly when t <= 0 and
\* otherwise size / t in MB/s rounded to ONE digit after the decimal point.
C8_ThroughputOneDecimal ==
    (pc = "returned" /\ call.fn = "format_throughput") =>
    LET size == call.a[1]
        t == call.a[2]
    IN  /\ (ret.val = NA) <=> (t <= 0)
        /\ t > 0 =>
            /\ ret.val.kind = "num"
            /\ ret.val.suffix = " MB/s"
            /\ ret.val.digits = 1
            /\ 2 * Abs(ret.val.scaled * t - size * TicksPerSecond * 10) <= t

\* format_throughput has returned a rounded quotient: 10 MB in 1.5 s is 6.7 MB/s
C8_Witness ==
    /\ pc = "returned"
    /\ call = [fn |-> "format_throughput", a |-> <<10, 15000>>]
    /\ ret.val = [kind |-> "num", scaled |-> 67, digits |-> 1, suffix |-> " MB/s"]

====
